---------------------------- MODULE Spec2Model ----------------------------
(***************************************************************************)
(* A model of the Nordic data pipeline: src/src/etl.py (cleaning, currency *)
(* inference, orphan removal, conversion), src/src/features.py (RFM        *)
(* aggregation, flags, enrichment) and src/src/main.py (the driver).       *)
(*                                                                         *)
(* Tables are sequences of records.  A nullable cell is <<>> (null) or     *)
(* <<v>> (the value v).  Money is kept in whole units for `amount` and in  *)
(* hundredths (cents) for every EUR column, so round(2) is integer         *)
(* rounding; the Float64 value NaN of a money column is the number NaN.    *)
(* A datetime is a number of hours since 2024-01-01 00:00:00.              *)
(***************************************************************************)
EXTENDS Integers, Sequences, FiniteSets, TLC

VARIABLES
    pc,                      \* the statement main() is about to execute
    schema_ok,               \* input: both CSV files match the input schema
    customers_file,          \* input: the rows of customers.csv
    transactions_file,       \* input: the rows of transactions.csv
    infer_missing_currency,  \* input: config.INFER_MISSING_CURRENCY
    reference_date_arg,      \* input: run_feature_engineering's reference_date
    round_mode,              \* input: the rounding mode of the installed polars
    raw_customers,           \* run_etl's local raw_customers
    raw_transactions,        \* run_etl's local raw_transactions
    clean_cust,              \* run_etl's local clean_cust
    clean_txn,               \* run_etl's local clean_txn
    features,                \* run_feature_engineering's local features
    written,                 \* the output files written so far
    trail                    \* the stages completed so far, in order

vars == <<pc, schema_ok, customers_file, transactions_file,
          infer_missing_currency, reference_date_arg, round_mode,
          raw_customers,
          raw_transactions,
          clean_cust, clean_txn, features, written, trail>>

---------------------------------------------------------------------------
(* Nullable cells *)

None == <<>>
Some(v) == <<v>>
IsNull(x) == x = <<>>
Val(x) == x[1]

(* Float64 columns: NaN and the order of comparisons *)

\* The cell value standing for NaN, which read_csv parses into the Float64
\* column amount; it lies above every amount and every sum of cents.
NaN == 2000000000
IsNaN(v) == v = NaN

\* Comparisons of Float64 values: NaN is equal to NaN and greater than
\* every number.
TotalGeq(a, b) == IsNaN(a) \/ (~IsNaN(b) /\ a >= b)
TotalGt(a, b) == ~IsNaN(b) /\ (IsNaN(a) \/ a > b)

(* Bounds of the checked inputs *)
MaxCust == 2
MaxTxn == 2
MaxFeatTxn == 3
MaxSpend == 3

---------------------------------------------------------------------------
(* config.py *)

VALID_COUNTRIES == {"DK", "FI", "SE", "NO"}

COUNTRY_CURRENCY_MAP ==
    [c \in VALID_COUNTRIES |->
        CASE c = "DK" -> "DKK"
          [] c = "SE" -> "SEK"
          [] c = "NO" -> "NOK"
          [] c = "FI" -> "EUR"]

\* Conversion rates to EUR, in thousandths (1.0, 0.134, 0.094, 0.087).
CONVERSION_RATES ==
    [c \in {"EUR", "DKK", "SEK", "NOK"} |->
        CASE c = "EUR" -> 1000
          [] c = "DKK" -> 134
          [] c = "SEK" -> 94
          [] c = "NOK" -> 87]

---------------------------------------------------------------------------
(* String and date conversions, on the strings the inputs are drawn from *)

\* str.to_uppercase
to_uppercase(s) ==
    CASE s = "dk" -> "DK"
      [] s = "fi" -> "FI"
      [] s = "xx" -> "XX"
      [] s = "dkk" -> "DKK"
      [] s = "eur" -> "EUR"
      [] s = "usd" -> "USD"
      [] s = "na" -> "NA"
      [] OTHER -> s

\* str.to_lowercase
to_lowercase(s) ==
    CASE s = "Food" -> "food"
      [] s = "FOOD" -> "food"
      [] s = "NA" -> "na"
      [] s = "A@X.COM" -> "a@x.com"
      [] s = "B@x.com" -> "b@x.com"
      [] OTHER -> s

\* The strings that match "%Y-%m-%d", with their day number (2024-01-01 is 0).
DateFormatMatches(s) == s \in {"2024-01-01", "2024-01-05"}
DateValue(s) == CASE s = "2024-01-01" -> 0 [] s = "2024-01-05" -> 4

\* The strings that match "%Y-%m-%d %H:%M:%S", with their hour number.
DatetimeFormatMatches(s) ==
    s \in {"2024-01-01 08:00:00", "2024-01-01 20:00:00",
           "2024-01-02 06:00:00", "2024-01-10 08:00:00"}
DatetimeValue(s) ==
    CASE s = "2024-01-01 08:00:00" -> 8
      [] s = "2024-01-01 20:00:00" -> 20
      [] s = "2024-01-02 06:00:00" -> 30
      [] s = "2024-01-10 08:00:00" -> 224

\* str.to_date(fmt) / str.to_datetime(fmt), strict: null stays null, a
\* string that does not match the format makes the whole call raise.
to_date_raises(cell) == ~IsNull(cell) /\ ~DateFormatMatches(Val(cell))
to_datetime_raises(cell) == ~IsNull(cell) /\ ~DatetimeFormatMatches(Val(cell))
to_date(cell) == IF IsNull(cell) THEN None ELSE Some(DateValue(Val(cell)))
to_datetime(cell) ==
    IF IsNull(cell) THEN None ELSE Some(DatetimeValue(Val(cell)))

---------------------------------------------------------------------------
(* Table operations *)

Range(s) == {s[i] : i \in DOMAIN s}

\* The rows of df whose index is in keep, in order.
FilterIdx(df, keep) ==
    LET F[i \in 0..Len(df)] ==
            IF i = 0 THEN <<>>
            ELSE IF i \in keep THEN Append(F[i - 1], df[i]) ELSE F[i - 1]
    IN  F[Len(df)]

\* unique(subset=[col], keep="last") in place of keep="first"
unique_keep_last(df, col) ==
    FilterIdx(df, {i \in 1..Len(df) :
                      \A j \in (i + 1)..Len(df) : df[j][col] # df[i][col]})

\* DataFrame.unique(subset=[col], keep="first")
unique_keep_first(df, col) ==
    FilterIdx(df, {i \in 1..Len(df) :
                      \A j \in 1..(i - 1) : df[j][col] # df[i][col]})

\* DataFrame.sort(col), ascending, on a column without nulls
RECURSIVE sort(_, _)
sort(df, col) ==
    IF df = <<>> THEN <<>>
    ELSE LET n == Len(df)
             row == df[n]
             rest == sort(SubSeq(df, 1, n - 1), col)
             k == Cardinality({i \in 1..Len(rest) :
                                 Val(rest[i][col]) <= Val(row[col])})
         IN  SubSeq(rest, 1, k) \o <<row>> \o SubSeq(rest, k + 1, Len(rest))

\* round() of the quantile index num/den, num >= 0, den > 0: half away
\* from zero.  The index (n - 1) * 0.80 is never a tie.
RoundDiv(num, den) == (2 * num + den) \div (2 * den)

---------------------------------------------------------------------------
(* Float64 arithmetic.  A non-negative double is held exactly as the natural *)
(* number value * 2^(15 * FracLimbs), written in limbs of 15 bits, least    *)
(* significant first, <<>> for zero.  Exact for whole amounts below 2^15    *)
(* and for values that are 0 or at least 2^-30.                              *)

LimbBase == 32768
FracLimbs == 6
\* Significant bits of a double
MantissaBits == 53

RECURSIVE Norm(_)
Norm(x) ==
    IF x = <<>> \/ x[Len(x)] # 0 THEN x ELSE Norm(SubSeq(x, 1, Len(x) - 1))

RECURSIVE FromInt(_)
FromInt(n) ==
    IF n = 0 THEN <<>> ELSE <<n % LimbBase>> \o FromInt(n \div LimbBase)

RECURSIVE ToInt(_)
ToInt(x) == IF x = <<>> THEN 0 ELSE Head(x) + LimbBase * ToInt(Tail(x))

\* x * LimbBase^k and x \div LimbBase^k
ShiftLimbs(x, k) == IF x = <<>> THEN <<>> ELSE [i \in 1..k |-> 0] \o x
DropLimbs(x, k) == IF Len(x) <= k THEN <<>> ELSE SubSeq(x, k + 1, Len(x))

RECURSIVE AddCarry(_, _, _)
AddCarry(x, y, c) ==
    IF x = <<>> /\ y = <<>> THEN FromInt(c)
    ELSE LET a == IF x = <<>> THEN 0 ELSE Head(x)
             b == IF y = <<>> THEN 0 ELSE Head(y)
             t == a + b + c
         IN  <<t % LimbBase>>
               \o AddCarry(IF x = <<>> THEN <<>> ELSE Tail(x),
                           IF y = <<>> THEN <<>> ELSE Tail(y),
                           t \div LimbBase)

\* x * m + c for 0 <= m < LimbBase
RECURSIVE MulSmall(_, _, _)
MulSmall(x, m, c) ==
    IF x = <<>> THEN FromInt(c)
    ELSE LET t == Head(x) * m + c
         IN  <<t % LimbBase>> \o MulSmall(Tail(x), m, t \div LimbBase)

\* Long division of the limbs i, i - 1, ..., 1 of x by d, given the quotient
\* q and the remainder r of the limbs above i
RECURSIVE DivRemFrom(_, _, _, _, _)
DivRemFrom(x, d, i, q, r) ==
    IF i = 0 THEN [q |-> q, r |-> r]
    ELSE DivRemFrom(x, d, i - 1,
                    <<(r * LimbBase + x[i]) \div d>> \o q,
                    (r * LimbBase + x[i]) % d)

\* Quotient (not normalised) and remainder of x by d, 0 < d < LimbBase
DivRem(x, d) == DivRemFrom(x, d, Len(x), <<>>, 0)

RECURSIVE BitsOf(_)
BitsOf(v) == IF v = 0 THEN 0 ELSE 1 + BitsOf(v \div 2)

BitLen(x) == IF x = <<>> THEN 0 ELSE 15 * (Len(x) - 1) + BitsOf(x[Len(x)])

\* -1, 0 or 1 as the low `bits` bits of x, with anything below x (sticky),
\* are less than, equal to or more than half of 2^bits; bits >= 1.
HalfCompare(x, bits, sticky) ==
    LET a == (bits - 1) \div 15
        b == (bits - 1) % 15
        top == IF Len(x) > a THEN x[a + 1] % (2 ^ (b + 1)) ELSE 0
        rest == sticky \/ \E i \in 1..a : i <= Len(x) /\ x[i] # 0
    IN  IF top < 2 ^ b THEN -1
        ELSE IF top > 2 ^ b \/ rest THEN 1
        ELSE 0

\* x with its low `bits` bits cleared, plus up * 2^bits
Truncate(x, bits, up) ==
    LET a == bits \div 15
        b == bits % 15
        q == Norm(DivRem(DropLimbs(x, a), 2 ^ b).q)
        q1 == IF up THEN AddCarry(q, <<1>>, 0) ELSE q
    IN  ShiftLimbs(MulSmall(q1, 2 ^ b, 0), a)

\* Whether bit number `bit` of x (bit 0 the lowest) is set
BitSet(x, bit) ==
    /\ Len(x) > bit \div 15
    /\ (x[bit \div 15 + 1] \div (2 ^ (bit % 15))) % 2 = 1

\* Round to nearest, ties to even: the double nearest to x (with sticky set
\* when the exact value lies strictly above x and below the next natural).
RoundToDouble(x, sticky) ==
    LET drop == BitLen(x) - MantissaBits
    IN  IF drop <= 0 THEN x
        ELSE LET c == HalfCompare(x, drop, sticky)
             IN  Truncate(x, drop, c = 1 \/ (c = 0 /\ BitSet(x, drop)))

\* The double nearest to x / d, 0 < d < LimbBase
FloatDiv(x, d) ==
    LET dr == DivRem(x, d) IN RoundToDouble(Norm(dr.q), dr.r # 0)

\* The double product of x and a whole number 0 <= m < LimbBase
FloatMul(x, m) == RoundToDouble(Norm(MulSmall(x, m, 0)), FALSE)

\* The double sum of x and y
FloatAdd(x, y) == RoundToDouble(AddCarry(x, y, 0), FALSE)

\* The double of the whole number n, and of the decimal n / d
FloatOfInt(n) == ShiftLimbs(FromInt(n), FracLimbs)
FloatOfRatio(n, d) == FloatDiv(FloatOfInt(n), d)

\* Expr.round(2) of the double x, in cents: (x * 100.0).round(), where a
\* tie goes to the even cent (mode "half_to_even") or away from zero
\* (mode "half_away_from_zero").
round_2(x, mode) ==
    LET t == FloatMul(x, 100)
        floor == ToInt(DropLimbs(t, FracLimbs))
        c == HalfCompare(t, 15 * FracLimbs, FALSE)
    IN  IF c < 0 THEN floor
        ELSE IF c > 0 THEN floor + 1
        ELSE IF mode = "half_to_even" /\ floor % 2 = 0 THEN floor
        ELSE floor + 1

\* The double a rounded column holds for a number of cents: cents / 100.0
FloatOfCents(cents) == FloatOfRatio(cents, 100)

\* mean() of doubles: the sum, added up in row order, divided by the count
RECURSIVE FloatSum(_)
FloatSum(xs) ==
    IF xs = <<>> THEN <<>>
    ELSE FloatAdd(FloatSum(SubSeq(xs, 1, Len(xs) - 1)), xs[Len(xs)])

FloatMean(xs) == FloatDiv(FloatSum(xs), Len(xs))

\* The rounding modes of Expr.round: "half_to_even" is the default of the
\* releases that have the mode parameter, earlier releases round half away
\* from zero.  The installed release decides; it is the same for a whole
\* run.
RoundModes == {"half_to_even", "half_away_from_zero"}

---------------------------------------------------------------------------
(* etl.py: cleaning *)

\* clean_customers raises when a signup_date does not match the format.
clean_customers_raises(df) ==
    \E i \in 1..Len(df) : to_date_raises(df[i].signup_date)

CustomerWithColumns(r) ==
    [customer_id |-> r.customer_id,
     country |-> IF IsNull(r.country) THEN None
                 ELSE Some(to_uppercase(Val(r.country))),
     signup_date |-> to_date(r.signup_date),
     email |-> IF IsNull(r.email) THEN None
               ELSE Some(to_lowercase(Val(r.email)))]

CustomerFilter(r) ==
    /\ ~IsNull(r.customer_id)
    /\ ~IsNull(r.country)
    /\ Val(r.country) \in VALID_COUNTRIES

\* clean_customers without the unique(subset=["customer_id"]) step
clean_customers_no_unique(df) ==
    LET cols == [i \in 1..Len(df) |-> CustomerWithColumns(df[i])]
        kept == SelectSeq(cols, CustomerFilter)
    IN  sort(kept, "customer_id")

clean_customers(df) ==
    LET cols == [i \in 1..Len(df) |-> CustomerWithColumns(df[i])]
        kept == SelectSeq(cols, CustomerFilter)
    IN  sort(unique_keep_first(kept, "customer_id"), "customer_id")

\* clean_transactions raises when a timestamp does not match the format.
clean_transactions_raises(df) ==
    \E i \in 1..Len(df) : to_datetime_raises(df[i].timestamp)

TransactionWithColumns(r) ==
    [transaction_id |-> r.transaction_id,
     customer_id |-> r.customer_id,
     amount |-> r.amount,
     currency |-> IF IsNull(r.currency) \/ r.currency = Some("")
                  THEN Some("NA")
                  ELSE Some(to_uppercase(Val(r.currency))),
     timestamp |-> to_datetime(r.timestamp),
     category |-> IF IsNull(r.category) \/ r.category = Some("")
                  THEN Some("NA")
                  ELSE Some(to_lowercase(Val(r.category)))]

\* filter(...): the row has an id, a customer and an amount, and
\* amount > 0 in the order of Float64 comparisons, which a NaN passes.
TransactionFilter(r) ==
    /\ ~IsNull(r.transaction_id)
    /\ ~IsNull(r.customer_id)
    /\ ~IsNull(r.amount)
    /\ TotalGt(Val(r.amount), 0)

clean_transactions(df) ==
    LET cols == [i \in 1..Len(df) |-> TransactionWithColumns(df[i])]
        kept == SelectSeq(cols, TransactionFilter)
    IN  sort(unique_keep_first(kept, "transaction_id"), "transaction_id")

\* validate_transactions: round(df["amount"].min(), 2) raises on None, the
\* minimum of an empty column (amount has no nulls after cleaning); on a
\* NaN, round(x, 2) returns NaN and does not raise.
validate_transactions_raises(df) == Len(df) = 0

---------------------------------------------------------------------------
(* etl.py: currency inference, orphan removal, conversion *)

\* transactions.join(customers.select(customer_id, country), how="left"):
\* one output row per matching customer row, or one with a null country.
RECURSIVE LeftJoinCountry(_, _)
LeftJoinCountry(transactions, customers) ==
    IF transactions = <<>> THEN <<>>
    ELSE LET t == Head(transactions)
             m == SelectSeq(customers,
                            LAMBDA c : c.customer_id = t.customer_id)
             one == IF m = <<>>
                    THEN <<[txn |-> t, country |-> None]>>
                    ELSE [i \in 1..Len(m) |->
                            [txn |-> t, country |-> m[i].country]]
         IN  one \o LeftJoinCountry(Tail(transactions), customers)

\* A replacement that lets a null country through as null.
ReplaceCountry_NullStaysNull(country) ==
    IF IsNull(country) THEN None
    ELSE IF Val(country) \in DOMAIN COUNTRY_CURRENCY_MAP
         THEN Some(COUNTRY_CURRENCY_MAP[Val(country)])
         ELSE Some("NA")

\* replace_strict(COUNTRY_CURRENCY_MAP, default="NA"): a value that is no key
\* of the mapping, null included, becomes the default.
ReplaceCountry(country) ==
    IF ~IsNull(country) /\ Val(country) \in DOMAIN COUNTRY_CURRENCY_MAP
    THEN Some(COUNTRY_CURRENCY_MAP[Val(country)])
    ELSE Some("NA")

InferredCurrency(currency, country) ==
    IF currency = Some("NA") THEN ReplaceCountry(country) ELSE currency

infer_currency_from_country(transactions, customers) ==
    LET j == LeftJoinCountry(transactions, customers)
    IN  [i \in 1..Len(j) |->
            [j[i].txn EXCEPT
                !.currency = InferredCurrency(j[i].txn.currency, j[i].country)]]

valid_customer_ids(customers) ==
    {customers[i].customer_id : i \in 1..Len(customers)}

\* The filter with its condition negated: keeps the orphans.
remove_orphan_transactions_negated(transactions, customers) ==
    SelectSeq(transactions,
              LAMBDA t : t.customer_id \notin valid_customer_ids(customers))

remove_orphan_transactions(transactions, customers) ==
    SelectSeq(transactions,
              LAMBDA t : t.customer_id \in valid_customer_ids(customers))

\* The amount taken as euros whatever the currency, in place of amount * rate
AmountInEur_NoRate(amount, currency, mode) ==
    IF /\ ~IsNull(amount)
       /\ ~IsNull(currency)
       /\ Val(currency) \in DOMAIN CONVERSION_RATES
    THEN Some(IF IsNaN(Val(amount)) THEN NaN ELSE Val(amount) * 100)
    ELSE None

\* The doubles of the conversion rates: the double nearest to each decimal
FloatRates ==
    [c \in DOMAIN CONVERSION_RATES |-> FloatOfRatio(CONVERSION_RATES[c], 1000)]

\* (amount * rate).round(2) in cents: the double product of the whole
\* amount and the double nearest to the rate, rounded by round_2 (the
\* product and both rounding modes are symmetric in the sign); NaN when
\* the amount is NaN; null when the amount is null or the currency has no
\* rate (replace_strict(CONVERSION_RATES, default=None)).
AmountInEur(amount, currency, mode) ==
    IF /\ ~IsNull(amount)
       /\ ~IsNull(currency)
       /\ Val(currency) \in DOMAIN CONVERSION_RATES
    THEN LET a == Val(amount)
             size == IF a < 0 THEN -a ELSE a
             cents == round_2(FloatMul(FloatRates[Val(currency)], size), mode)
         IN  Some(IF IsNaN(a) THEN NaN ELSE IF a < 0 THEN -cents ELSE cents)
    ELSE None

add_amount_in_eur(transactions, mode) ==
    [i \in 1..Len(transactions) |->
        [transaction_id |-> transactions[i].transaction_id,
         customer_id |-> transactions[i].customer_id,
         amount |-> transactions[i].amount,
         currency |-> transactions[i].currency,
         timestamp |-> transactions[i].timestamp,
         category |-> transactions[i].category,
         amount_in_eur |-> AmountInEur(transactions[i].amount,
                                       transactions[i].currency, mode)]]

---------------------------------------------------------------------------
(* config.py: feature engineering settings *)

\* HIGH_VALUE_PERCENTILE = 0.80, in hundredths
HIGH_VALUE_PERCENTILE == 80
CHURN_DAYS == 50
CHURN_Z_SCORE_THRESHOLD == 2
\* Hours in a day: .dt.date() and .dt.total_days() of an hour count
HoursPerDay == 24

---------------------------------------------------------------------------
(* features.py: compute_rfm_features *)

RECURSIVE SumSeq(_)
SumSeq(s) == IF s = <<>> THEN 0 ELSE Head(s) + SumSeq(Tail(s))

SetMax(S) == CHOOSE x \in S : \A y \in S : y <= x
SetMin(S) == CHOOSE x \in S : \A y \in S : x <= y

\* The non-null values of a column, in row order.
NonNull(df, col) ==
    LET F[i \in 0..Len(df)] ==
            IF i = 0 THEN <<>>
            ELSE IF IsNull(df[i][col]) THEN F[i - 1]
                 ELSE Append(F[i - 1], Val(df[i][col]))
    IN  F[Len(df)]

\* .dt.date() of a datetime; .dt.total_days() of a non-negative duration
DateOf(hours) == hours \div HoursPerDay
total_days(hours) == hours \div HoursPerDay

\* With no reference date given, transactions["timestamp"].max() is None on
\* an empty or all-null column, and None.date() raises AttributeError.
compute_rfm_features_raises(transactions, given) ==
    IsNull(given) /\ NonNull(transactions, "timestamp") = <<>>

\* The reference date given by the caller, else the date of the latest
\* transaction.
reference_date(transactions, given) ==
    IF IsNull(given)
    THEN DateOf(SetMax(Range(NonNull(transactions, "timestamp"))))
    ELSE Val(given)

\* Row order of sort(["customer_id", "timestamp"]): nulls first.
SortKeyLeq(a, b) ==
    \/ Val(a.customer_id) < Val(b.customer_id)
    \/ /\ a.customer_id = b.customer_id
       /\ \/ IsNull(a.timestamp)
          \/ /\ ~IsNull(b.timestamp)
             /\ Val(a.timestamp) <= Val(b.timestamp)

RECURSIVE transactions_sorted(_)
transactions_sorted(df) ==
    IF df = <<>> THEN <<>>
    ELSE LET n == Len(df)
             row == df[n]
             rest == transactions_sorted(SubSeq(df, 1, n - 1))
             k == Cardinality({i \in 1..Len(rest) : SortKeyLeq(rest[i], row)})
         IN  SubSeq(rest, 1, k) \o <<row>> \o SubSeq(rest, k + 1, Len(rest))

\* (timestamp - timestamp.shift(1).over("customer_id")).dt.total_days() of
\* row i of the sorted table: null for a customer's first row and when
\* either timestamp is null.
interevent_days(sorted, i) ==
    IF /\ i > 1
       /\ sorted[i - 1].customer_id = sorted[i].customer_id
       /\ ~IsNull(sorted[i - 1].timestamp)
       /\ ~IsNull(sorted[i].timestamp)
    THEN Some(total_days(Val(sorted[i].timestamp)
                         - Val(sorted[i - 1].timestamp)))
    ELSE None

\* The non-null interevent_days of one customer, in sorted order.
InterEventDeltas(transactions, cid) ==
    LET sorted == transactions_sorted(transactions)
        F[i \in 0..Len(sorted)] ==
            IF i = 0 THEN <<>>
            ELSE IF sorted[i].customer_id = cid
                    /\ ~IsNull(interevent_days(sorted, i))
                 THEN Append(F[i - 1], Val(interevent_days(sorted, i)))
                 ELSE F[i - 1]
    IN  F[Len(sorted)]

\* mean(): null on no value, else the rational num/den.
Mean(xs) ==
    IF xs = <<>> THEN None ELSE Some([num |-> SumSeq(xs), den |-> Len(xs)])

\* std() (sample, ddof = 1): null on fewer than 2 values, else the square
\* root of the rational var_num/var_den.
Std(xs) ==
    IF Len(xs) < 2 THEN None
    ELSE LET n == Len(xs)
             s == SumSeq(xs)
             q == SumSeq([i \in 1..n |-> xs[i] * xs[i]])
         IN  Some([var_num |-> n * q - s * s, var_den |-> n * (n - 1)])

\* The integer nearest to sqrt(num/den), by bisection on lo..hi.
RECURSIVE RoundSqrt(_, _, _, _)
RoundSqrt(num, den, lo, hi) ==
    IF lo >= hi THEN lo
    ELSE LET mid == (lo + hi + 1) \div 2
         IN  IF (2 * mid - 1) * (2 * mid - 1) * den <= 4 * num
             THEN RoundSqrt(num, den, mid, hi)
             ELSE RoundSqrt(num, den, lo, mid - 1)

\* std().round(2) of a cents column, from the exact variance.  The exact
\* standard deviation of fewer than 4 amounts in whole cents is never on a
\* half-cent tie, and off a tie it is further from one than the error of
\* the double.
StdRounded(xs) ==
    IF Len(xs) < 2 THEN None
    ELSE IF \E i \in 1..Len(xs) : IsNaN(xs[i]) THEN Some(NaN)
    ELSE Some(RoundSqrt(Val(Std(xs)).var_num, Val(Std(xs)).var_den,
                        0, SetMax(Range(xs))))

\* The rows of one group of group_by("customer_id").
Group(transactions, cid) ==
    SelectSeq(transactions, LAMBDA t : t.customer_id = cid)

\* One output row of the aggregation and its with_columns and join.
\* preferred_category and preferred_currency (mode().first()) are left out:
\* nothing checked here reads them.  A NaN among the amounts makes the sum,
\* the mean and the standard deviation NaN; min() and max() pass over NaN
\* values and are NaN only when every value is.
RfmRow(transactions, cid, given, mode) ==
    LET g == Group(transactions, cid)
        eur == NonNull(g, "amount_in_eur")
        ts == NonNull(g, "timestamp")
        last == IF ts = <<>> THEN None ELSE Some(SetMax(Range(ts)))
        first == IF ts = <<>> THEN None ELSE Some(SetMin(Range(ts)))
        deltas == InterEventDeltas(transactions, cid)
        floats == [i \in 1..Len(eur) |-> FloatOfCents(eur[i])]
        has_nan == \E i \in 1..Len(eur) : IsNaN(eur[i])
        numbers == SelectSeq(eur, LAMBDA v : ~IsNaN(v))
    IN  [customer_id |-> cid,
         total_spend |->
            IF has_nan THEN Some(NaN)
            ELSE Some(round_2(FloatSum(floats), mode)),
         avg_transaction_amount |->
            IF eur = <<>> THEN None
            ELSE IF has_nan THEN Some(NaN)
            ELSE Some(round_2(FloatMean(floats), mode)),
         std_transaction_amount |-> StdRounded(eur),
         min_transaction_amount |->
            IF eur = <<>> THEN None
            ELSE IF numbers = <<>> THEN Some(NaN)
            ELSE Some(SetMin(Range(numbers))),
         max_transaction_amount |->
            IF eur = <<>> THEN None
            ELSE IF numbers = <<>> THEN Some(NaN)
            ELSE Some(SetMax(Range(numbers))),
         transaction_count |-> Len(NonNull(g, "transaction_id")),
         last_transaction_date |-> last,
         first_transaction_date |-> first,
         days_since_last_transaction |->
            IF IsNull(last) THEN None
            ELSE Some(reference_date(transactions, given)
                        - DateOf(Val(last))),
         customer_tenure_days |->
            IF IsNull(last) THEN None
            ELSE Some(DateOf(Val(last)) - DateOf(Val(first))),
         mean_interevent_days |-> Mean(deltas),
         std_interevent_days |-> Std(deltas)]

\* group_by does not fix the order of its output rows: every order of the
\* distinct customer_ids is possible.
GroupKeys(transactions) ==
    {transactions[i].customer_id : i \in 1..Len(transactions)}

GroupOrders(transactions) ==
    LET keys == GroupKeys(transactions)
        n == Cardinality(keys)
    IN  {o \in [1..n -> keys] : \A i, j \in 1..n : i # j => o[i] # o[j]}

compute_rfm_features(transactions, order, given, mode) ==
    [i \in 1..Len(order) |-> RfmRow(transactions, order[i], given, mode)]

---------------------------------------------------------------------------
(* features.py: add_customer_flags *)

\* Series.quantile(q) with the default interpolation "nearest": the value at
\* index round((n - 1) * q) of the sorted non-null values, NaN sorting last.
quantile(xs, percent) ==
    LET n == Len(xs)
        idx == RoundDiv((n - 1) * percent, 100)
        sorted == CHOOSE s \in [1..n -> Range(xs)] :
                     /\ \A i \in 1..(n - 1) : TotalGeq(s[i + 1], s[i])
                     /\ \A v \in Range(xs) :
                          Cardinality({i \in 1..n : s[i] = v})
                            = Cardinality({i \in 1..n : xs[i] = v})
    IN  sorted[idx + 1]

high_value_threshold(feats) ==
    quantile(NonNull(feats, "total_spend"), HIGH_VALUE_PERCENTILE)

\* days > mean + z * std with mean = num/den and std = sqrt(var_num/var_den),
\* decided exactly: d > 0 and d^2 * var_den > z^2 * var_num * den^2 where
\* d = days * den - num.
ExceedsZScore(days, mean, std) ==
    LET d == days * mean.den - mean.num
    IN  /\ d > 0
        /\ d * d * std.var_den
             > CHURN_Z_SCORE_THRESHOLD * CHURN_Z_SCORE_THRESHOLD
                 * std.var_num * mean.den * mean.den

\* A comparison with a null operand is null.
is_churning_2(r) ==
    IF \/ IsNull(r.days_since_last_transaction)
       \/ IsNull(r.mean_interevent_days)
       \/ IsNull(r.std_interevent_days)
    THEN None
    ELSE Some(ExceedsZScore(Val(r.days_since_last_transaction),
                            Val(r.mean_interevent_days),
                            Val(r.std_interevent_days)))

is_churning(r) ==
    IF IsNull(r.days_since_last_transaction) THEN None
    ELSE Some(Val(r.days_since_last_transaction) >= CHURN_DAYS)

is_high_value(r, threshold) ==
    IF IsNull(r.total_spend) THEN None
    ELSE Some(TotalGeq(Val(r.total_spend), threshold))

has_single_transaction(r) == Some(r.transaction_count = 1)

add_customer_flags(feats) ==
    [i \in 1..Len(feats) |->
        feats[i] @@
        [is_high_value |-> is_high_value(feats[i], high_value_threshold(feats)),
         is_churning |-> is_churning(feats[i]),
         is_churning_2 |-> is_churning_2(feats[i]),
         has_single_transaction |-> has_single_transaction(feats[i])]]

---------------------------------------------------------------------------
(* features.py: enrich_with_customer_data *)

NoCustomer == [country |-> None, signup_date |-> None, email |-> None]

\* features.join(customers.select(...), on="customer_id", how="left")
RECURSIVE enrich_with_customer_data(_, _)
enrich_with_customer_data(feats, customers) ==
    IF feats = <<>> THEN <<>>
    ELSE LET f == Head(feats)
             m == SelectSeq(customers,
                            LAMBDA c : c.customer_id = f.customer_id)
             one == IF m = <<>> THEN <<f @@ NoCustomer>>
                    ELSE [i \in 1..Len(m) |->
                            f @@ [country |-> m[i].country,
                                  signup_date |-> m[i].signup_date,
                                  email |-> m[i].email]]
         IN  one \o enrich_with_customer_data(Tail(feats), customers)

---------------------------------------------------------------------------
(* features.py: compute_feature_summary *)

\* round(None, n) raises TypeError: the min, max, mean and median of
\* total_spend are None on an empty table, and the mean of
\* days_since_last_transaction is None when every value is null.  The
\* filters count a null flag as false and do not raise, and round(x, 2)
\* of a NaN statistic returns NaN.
compute_feature_summary_raises(feats) ==
    \/ feats = <<>>
    \/ \A i \in 1..Len(feats) : IsNull(feats[i].days_since_last_transaction)

---------------------------------------------------------------------------
(* The inputs the pipeline is run on *)

Customer(id, country, signup, email) ==
    [customer_id |-> id, country |-> country,
     signup_date |-> signup, email |-> email]

Transaction(tid, cid, amount, currency, ts, category) ==
    [transaction_id |-> tid, customer_id |-> cid, amount |-> amount,
     currency |-> currency, timestamp |-> ts, category |-> category]

SeqsUpTo(S, n) == UNION {[1..k -> S] : k \in 0..n}

\* Raw customer rows: every defect the cleaning handles, and well-formed rows.
CustomerRows ==
    {Customer(id, Some(c), v[1], v[2]) :
        id \in {None, Some(1), Some(2)},
        c \in {"dk", "FI", "XX"},
        v \in {<<Some("2024-01-01"), Some("A@X.COM")>>,
               <<Some("2024-01-05"), Some("b@x.com")>>}}
    \cup {Customer(Some(1), None, Some("2024-01-01"), Some("A@X.COM")),
          Customer(Some(2), Some("FI"), None, None),
          Customer(Some(1), Some("dk"), Some("05/01/2024"), Some("b@x.com"))}

\* Two well-formed customers, one in Denmark and one in Finland.
StdCustomers ==
    <<Customer(Some(1), Some("dk"), Some("2024-01-01"), Some("A@X.COM")),
      Customer(Some(2), Some("FI"), Some("2024-01-05"), Some("b@x.com"))>>

\* Raw transaction rows: well-formed rows of customers 1, 2 and of the
\* missing customer 9, and one row for every defect the cleaning handles.
\* The 15 NOK row has a product of exactly 1.305, a rounding tie; the last
\* row has the amount NaN.
TransactionRows ==
    {Transaction(Some(tid), Some(cid), Some(100), Some(cur),
                 Some("2024-01-01 08:00:00"), Some("Food")) :
        tid \in {1, 2}, cid \in {1, 2, 9}, cur \in {"dkk", "NA"}}
    \cup
    {Transaction(d[1], d[2], d[3], d[4], d[5], d[6]) : d \in
       {<<None, Some(1), Some(100), Some("dkk"),
          Some("2024-01-01 08:00:00"), Some("Food")>>,
        <<Some(2), None, Some(100), Some("dkk"),
          Some("2024-01-01 08:00:00"), Some("Food")>>,
        <<Some(2), Some(1), None, Some("dkk"),
          Some("2024-01-01 08:00:00"), Some("Food")>>,
        <<Some(2), Some(1), Some(0), Some("dkk"),
          Some("2024-01-01 08:00:00"), Some("Food")>>,
        <<Some(2), Some(1), Some(-5), Some("dkk"),
          Some("2024-01-01 08:00:00"), Some("Food")>>,
        <<Some(2), Some(1), Some(50), None,
          Some("2024-01-01 08:00:00"), Some("Food")>>,
        <<Some(2), Some(2), Some(50), Some(""),
          Some("2024-01-01 08:00:00"), Some("Food")>>,
        <<Some(2), Some(1), Some(50), Some("usd"),
          Some("2024-01-01 08:00:00"), Some("Food")>>,
        <<Some(2), Some(9), Some(50), Some("na"),
          Some("2024-01-01 08:00:00"), Some("Food")>>,
        <<Some(2), Some(1), Some(3), Some("DKK"),
          Some("2024-01-10 08:00:00"), None>>,
        <<Some(2), Some(1), Some(50), Some("EUR"),
          Some("2024-01-10 08:00:00"), Some("")>>,
        <<Some(2), Some(1), Some(50), Some("EUR"),
          Some("2024-01-10 08:00:00"), Some("NA")>>,
        <<Some(2), Some(1), Some(50), Some("EUR"), None, Some("FOOD")>>,
        <<Some(2), Some(1), Some(50), Some("EUR"),
          Some("01/01/2024 08:00"), Some("Food")>>,
        <<Some(2), Some(1), Some(15), Some("NOK"),
          Some("2024-01-10 08:00:00"), Some("Food")>>,
        <<Some(2), Some(1), Some(NaN), Some("dkk"),
          Some("2024-01-10 08:00:00"), Some("Food")>>}}

\* Two small transaction tables to run beside the raw customer tables.
FewTransactionTables ==
    {<<Transaction(Some(1), Some(1), Some(100), Some("dkk"),
                   Some("2024-01-01 08:00:00"), Some("Food")),
       Transaction(Some(2), Some(2), Some(50), None,
                   Some("2024-01-10 08:00:00"), None)>>,
     <<Transaction(Some(1), Some(2), Some(50), Some("NA"),
                   Some("2024-01-01 20:00:00"), Some("Food"))>>}

\* Well-formed transactions of the two standard customers: 100 DKK or 50 of
\* an unknown currency, at one of four instants or with no timestamp.  The
\* transaction_id is filled in from the row's position.
FeatureRows ==
    {Transaction(None, Some(cid), m[1], m[2], ts, Some("Food")) :
        cid \in {1, 2},
        m \in {<<Some(100), Some("dkk")>>, <<Some(50), Some("NA")>>},
        ts \in {None, Some("2024-01-01 08:00:00"),
                Some("2024-01-02 06:00:00"), Some("2024-01-10 08:00:00")}}

FeatureTables ==
    {[i \in DOMAIN t |-> [t[i] EXCEPT !.transaction_id = Some(i)]] :
        t \in SeqsUpTo(FeatureRows, MaxFeatTxn)}

\* The rows of the worked example, as customer_id, amount, currency and
\* timestamp: customer 1 has two transactions of 100 DKK on 2024-01-01 and
\* 2024-01-10, customer 2 has one of 50 with currency "NA" on 2024-01-01.
ExampleRows ==
    {<<Some(1), Some(100), Some("dkk"), Some("2024-01-01 08:00:00")>>,
     <<Some(1), Some(100), Some("dkk"), Some("2024-01-10 08:00:00")>>,
     <<Some(2), Some(50), Some("NA"), Some("2024-01-01 08:00:00")>>}

\* The worked example's transactions.csv, in every row order.
ExampleTables ==
    {t \in FeatureTables :
        /\ Len(t) = 3
        /\ {<<t[i].customer_id, t[i].amount, t[i].currency, t[i].timestamp>> :
              i \in 1..3} = ExampleRows}

\* Four well-formed customers, one in each valid country.
QuantileCustomers ==
    <<Customer(Some(1), Some("dk"), Some("2024-01-01"), Some("A@X.COM")),
      Customer(Some(2), Some("FI"), Some("2024-01-05"), Some("b@x.com")),
      Customer(Some(3), Some("SE"), Some("2024-01-01"), Some("b@x.com")),
      Customer(Some(4), Some("NO"), Some("2024-01-05"), Some("b@x.com"))>>

\* One transaction in EUR for each of the four customers, of 100, 200, ...
\* up to MaxSpend hundred units.
QuantileTables ==
    {[i \in 1..4 |->
        Transaction(Some(i), Some(i), Some(100 * a[i]), Some("EUR"),
                    Some("2024-01-01 08:00:00"), Some("Food"))] :
        a \in [1..4 -> 1..MaxSpend]}

\* The reference_date argument: None, or a date as its day number.
ReferenceDates == {None, Some(DateValue("2024-01-01")),
                   Some(DateOf(DatetimeValue("2024-01-10 08:00:00")))}

---------------------------------------------------------------------------
(* main.py: the pipeline, one action per statement of run_etl and           *)
(* run_feature_engineering that changes the state                          *)

OutputFiles ==
    {"customers_cleaned.csv", "transactions_cleaned.csv",
     "customer_features.csv"}

Start(cf, tf, flag, ok) ==
    /\ pc = "load"
    /\ schema_ok = ok
    /\ customers_file = cf
    /\ transactions_file = tf
    /\ infer_missing_currency = flag
    /\ raw_customers = <<>>
    /\ raw_transactions = <<>>
    /\ clean_cust = <<>>
    /\ clean_txn = <<>>
    /\ features = <<>>
    /\ written = {}
    /\ trail = <<>>

\* Raw tables with every kind of defect, or files that violate the schema.
Init ==
    /\ reference_date_arg = None
    /\ round_mode \in RoundModes
    /\ \/ \E cf \in SeqsUpTo(CustomerRows, MaxCust),
             tf \in FewTransactionTables, flag \in BOOLEAN :
               Start(cf, tf, flag, TRUE)
       \/ \E tf \in SeqsUpTo(TransactionRows, MaxTxn), flag \in BOOLEAN :
               Start(StdCustomers, tf, flag, TRUE)
       \/ Start(<<>>, <<>>, TRUE, FALSE)

\* Well-formed tables with up to MaxFeatTxn transactions.
InitFeatures ==
    /\ reference_date_arg = None
    /\ round_mode \in RoundModes
    /\ \E tf \in FeatureTables, flag \in BOOLEAN :
          Start(StdCustomers, tf, flag, TRUE)

\* The worked example, with inference on or off.
InitExample ==
    /\ reference_date_arg = None
    /\ round_mode \in RoundModes
    /\ \E tf \in ExampleTables, flag \in BOOLEAN :
          Start(StdCustomers, tf, flag, TRUE)

\* Four customers with one transaction each.
InitQuantile ==
    /\ reference_date_arg = None
    /\ round_mode \in RoundModes
    /\ \E tf \in QuantileTables, flag \in BOOLEAN :
          Start(QuantileCustomers, tf, flag, TRUE)

\* Well-formed tables with up to MaxTxn transactions, and a caller of
\* run_feature_engineering that passes no reference date, 2024-01-01 or
\* 2024-01-10.
InitReference ==
    /\ reference_date_arg \in ReferenceDates
    /\ round_mode \in RoundModes
    /\ \E tf \in FeatureTables, flag \in BOOLEAN :
          /\ Len(tf) <= MaxTxn
          /\ Start(StdCustomers, tf, flag, TRUE)

Abort ==
    /\ pc' = "aborted"
    /\ UNCHANGED <<raw_customers, raw_transactions, clean_cust, clean_txn,
                   features, written, trail>>

\* etl.py 341-342: load_customers, load_transactions; read_csv raises on a
\* file that does not match schema_overrides.
LoadRaw ==
    /\ pc = "load"
    /\ IF ~schema_ok THEN Abort
       ELSE /\ raw_customers' = customers_file
            /\ raw_transactions' = transactions_file
            /\ pc' = "clean"
            /\ UNCHANGED <<clean_cust, clean_txn, features, written, trail>>
    /\ UNCHANGED <<schema_ok, customers_file, transactions_file,
                   infer_missing_currency, reference_date_arg, round_mode>>

\* etl.py 348-349
Clean ==
    /\ pc = "clean"
    /\ IF \/ clean_customers_raises(raw_customers)
          \/ clean_transactions_raises(raw_transactions)
       THEN Abort
       ELSE /\ clean_cust' = clean_customers(raw_customers)
            /\ clean_txn' = clean_transactions(raw_transactions)
            /\ pc' = "validate"
            /\ trail' = Append(trail, "normalize")
            /\ UNCHANGED <<raw_customers, raw_transactions, features, written>>
    /\ UNCHANGED <<schema_ok, customers_file, transactions_file,
                   infer_missing_currency, reference_date_arg, round_mode>>

\* etl.py 355-356
Validate ==
    /\ pc = "validate"
    /\ IF validate_transactions_raises(clean_txn) THEN Abort
       ELSE /\ pc' = IF infer_missing_currency THEN "infer" ELSE "orphans"
            /\ UNCHANGED <<raw_customers, raw_transactions, clean_cust,
                           clean_txn, features, written, trail>>
    /\ UNCHANGED <<schema_ok, customers_file, transactions_file,
                   infer_missing_currency, reference_date_arg, round_mode>>

\* etl.py 365-371
Infer ==
    /\ pc = "infer"
    /\ LET inferred == infer_currency_from_country(clean_txn, clean_cust)
       IN  IF validate_transactions_raises(inferred) THEN Abort
           ELSE /\ clean_txn' = inferred
                /\ pc' = "orphans"
                /\ trail' = Append(trail, "infer")
                /\ UNCHANGED <<raw_customers, raw_transactions, clean_cust,
                               features, written>>
    /\ UNCHANGED <<schema_ok, customers_file, transactions_file,
                   infer_missing_currency, reference_date_arg, round_mode>>

\* The orphan filter handing over to the file writes, add_amount_in_eur
\* left out
RemoveOrphans_SkipConversion ==
    /\ pc = "orphans"
    /\ clean_txn' = remove_orphan_transactions(clean_txn, clean_cust)
    /\ pc' = "write_customers"
    /\ trail' = Append(trail, "orphans")
    /\ UNCHANGED <<schema_ok, customers_file, transactions_file,
                   infer_missing_currency, reference_date_arg, round_mode,
                   raw_customers,
                   raw_transactions,
                   clean_cust, features, written>>

\* etl.py 374
RemoveOrphans ==
    /\ pc = "orphans"
    /\ clean_txn' = remove_orphan_transactions(clean_txn, clean_cust)
    /\ pc' = "convert"
    /\ trail' = Append(trail, "orphans")
    /\ UNCHANGED <<schema_ok, customers_file, transactions_file,
                   infer_missing_currency, reference_date_arg, round_mode,
                   raw_customers,
                   raw_transactions,
                   clean_cust, features, written>>

\* etl.py 382
AddAmountInEur ==
    /\ pc = "convert"
    /\ clean_txn' = add_amount_in_eur(clean_txn, round_mode)
    /\ pc' = "write_customers"
    /\ trail' = Append(trail, "convert")
    /\ UNCHANGED <<schema_ok, customers_file, transactions_file,
                   infer_missing_currency, reference_date_arg, round_mode,
                   raw_customers,
                   raw_transactions,
                   clean_cust, features, written>>

\* etl.py 389
WriteCustomers ==
    /\ pc = "write_customers"
    /\ written' = written \cup {"customers_cleaned.csv"}
    /\ pc' = "write_transactions"
    /\ UNCHANGED <<schema_ok, customers_file, transactions_file,
                   infer_missing_currency, reference_date_arg, round_mode,
                   raw_customers,
                   raw_transactions,
                   clean_cust, clean_txn, features, trail>>

\* etl.py 390
WriteTransactions ==
    /\ pc = "write_transactions"
    /\ written' = written \cup {"transactions_cleaned.csv"}
    /\ pc' = "rfm"
    /\ UNCHANGED <<schema_ok, customers_file, transactions_file,
                   infer_missing_currency, reference_date_arg, round_mode,
                   raw_customers,
                   raw_transactions,
                   clean_cust, clean_txn, features, trail>>

\* features.py 214
ComputeRfm ==
    /\ pc = "rfm"
    /\ IF compute_rfm_features_raises(clean_txn, reference_date_arg) THEN Abort
       ELSE /\ \E order \in GroupOrders(clean_txn) :
                    features' = compute_rfm_features(clean_txn, order,
                                                     reference_date_arg,
                                                     round_mode)
            /\ pc' = "flags"
            /\ trail' = Append(trail, "rfm")
            /\ UNCHANGED <<raw_customers, raw_transactions, clean_cust,
                           clean_txn, written>>
    /\ UNCHANGED <<schema_ok, customers_file, transactions_file,
                   infer_missing_currency, reference_date_arg, round_mode>>

\* features.py 218
AddFlags ==
    /\ pc = "flags"
    /\ features' = add_customer_flags(features)
    /\ pc' = "enrich"
    /\ trail' = Append(trail, "flags")
    /\ UNCHANGED <<schema_ok, customers_file, transactions_file,
                   infer_missing_currency, reference_date_arg, round_mode,
                   raw_customers,
                   raw_transactions,
                   clean_cust, clean_txn, written>>

\* features.py 221
Enrich ==
    /\ pc = "enrich"
    /\ features' = enrich_with_customer_data(features, clean_cust)
    /\ pc' = "write_features"
    /\ trail' = Append(trail, "enrich")
    /\ UNCHANGED <<schema_ok, customers_file, transactions_file,
                   infer_missing_currency, reference_date_arg, round_mode,
                   raw_customers,
                   raw_transactions,
                   clean_cust, clean_txn, written>>

\* features.py 255-272: compute_feature_summary, then write_csv
WriteFeatures ==
    /\ pc = "write_features"
    /\ IF compute_feature_summary_raises(features) THEN Abort
       ELSE /\ written' = written \cup {"customer_features.csv"}
            /\ pc' = "done"
            /\ UNCHANGED <<raw_customers, raw_transactions, clean_cust,
                           clean_txn, features, trail>>
    /\ UNCHANGED <<schema_ok, customers_file, transactions_file,
                   infer_missing_currency, reference_date_arg, round_mode>>

Next ==
    \/ LoadRaw
    \/ Clean
    \/ Validate
    \/ Infer
    \/ RemoveOrphans
    \/ AddAmountInEur
    \/ WriteCustomers
    \/ WriteTransactions
    \/ ComputeRfm
    \/ AddFlags
    \/ Enrich
    \/ WriteFeatures

Spec == Init /\ [][Next]_vars

SpecFeatures == InitFeatures /\ [][Next]_vars

SpecExample == InitExample /\ [][Next]_vars

SpecQuantile == InitQuantile /\ [][Next]_vars

SpecReference == InitReference /\ [][Next]_vars

---------------------------------------------------------------------------
(* Properties *)

\* The stage has completed in this run.
Has(stage) == \E i \in DOMAIN trail : trail[i] = stage

\* The customer_ids of a table's rows.
Ids(df) == {df[i].customer_id : i \in 1..Len(df)}

\* C1: every row produced by add_customer_flags has a definite boolean
\* is_churning_2, and it is false when mean_interevent_days or
\* std_interevent_days is null.
C1_Churning2IsDefinite ==
    Has("flags") =>
        \A i \in 1..Len(features) :
            /\ features[i].is_churning_2 \in {Some(TRUE), Some(FALSE)}
            /\ (IsNull(features[i].mean_interevent_days)
                \/ IsNull(features[i].std_interevent_days))
                  => features[i].is_churning_2 = Some(FALSE)

\* C2: the transaction table run_etl returns has unique transaction_ids,
\* an amount that is a number greater than 0 on every row and a non-null
\* currency and category on every row, whatever infer_missing_currency is.
C2_CleanedTransactionsValid ==
    Has("convert") =>
        /\ \A i, j \in 1..Len(clean_txn) :
              i # j => clean_txn[i].transaction_id # clean_txn[j].transaction_id
        /\ \A i \in 1..Len(clean_txn) :
              /\ ~IsNull(clean_txn[i].transaction_id)
              /\ ~IsNull(clean_txn[i].amount)
              /\ ~IsNaN(Val(clean_txn[i].amount))
              /\ Val(clean_txn[i].amount) > 0
              /\ ~IsNull(clean_txn[i].currency)
              /\ ~IsNull(clean_txn[i].category)

\* A raw customer row passes the validity filter.
RawCustomerValid(r) ==
    /\ ~IsNull(r.customer_id)
    /\ ~IsNull(r.country)
    /\ to_uppercase(Val(r.country)) \in {"DK", "FI", "SE", "NO"}

\* C3: the output of clean_customers has pairwise distinct, non-null
\* customer_ids and only valid countries, and the row kept for a customer_id
\* comes from the first raw row, in input order, that passes the filter.
C3_CleanCustomers ==
    Has("normalize") =>
        /\ \A i, j \in 1..Len(clean_cust) :
              i # j => clean_cust[i].customer_id # clean_cust[j].customer_id
        /\ \A i \in 1..Len(clean_cust) :
              /\ ~IsNull(clean_cust[i].customer_id)
              /\ ~IsNull(clean_cust[i].country)
              /\ Val(clean_cust[i].country) \in {"DK", "FI", "SE", "NO"}
              /\ \E k \in 1..Len(raw_customers) :
                    /\ RawCustomerValid(raw_customers[k])
                    /\ raw_customers[k].customer_id = clean_cust[i].customer_id
                    /\ \A j \in 1..(k - 1) :
                          RawCustomerValid(raw_customers[j]) =>
                            raw_customers[j].customer_id
                              # raw_customers[k].customer_id
                    /\ clean_cust[i].signup_date
                         = to_date(raw_customers[k].signup_date)
                    /\ (IsNull(raw_customers[k].email)
                          => IsNull(clean_cust[i].email))
                    /\ (~IsNull(raw_customers[k].email)
                          => clean_cust[i].email
                               = Some(to_lowercase(Val(raw_customers[k].email))))
                    /\ Val(clean_cust[i].country)
                         = to_uppercase(Val(raw_customers[k].country))

\* C3 witness: two valid raw rows share a customer_id and differ, and the
\* cleaned table holds that customer.
C3_Witness ==
    /\ Has("normalize")
    /\ Len(clean_cust) >= 1
    /\ \E j, k \in 1..Len(raw_customers) :
          /\ j < k
          /\ RawCustomerValid(raw_customers[j])
          /\ RawCustomerValid(raw_customers[k])
          /\ raw_customers[j].customer_id = raw_customers[k].customer_id
          /\ raw_customers[j].email # raw_customers[k].email

\* The table new is the table old without the rows whose customer_id is not
\* in ids: same rows, same order, none twice.
IsOrphanFiltered(old, new, ids) ==
    /\ \A i \in 1..Len(new) : new[i].customer_id \in ids
    /\ \E f \in [1..Len(new) -> 1..Len(old)] :
          /\ \A i \in 1..Len(new) : new[i] = old[f[i]]
          /\ \A i, j \in 1..Len(new) : i < j => f[i] < f[j]
    /\ Len(new) = Cardinality({i \in 1..Len(old) : old[i].customer_id \in ids})

\* C4: remove_orphan_transactions returns exactly the input rows whose
\* customer_id is a cleaned customer's, unchanged and in order, and no
\* feature row is computed for, or counts, a transaction of a customer that
\* does not exist.
C4_OrphanRemoval ==
    /\ [][pc = "orphans" =>
            IsOrphanFiltered(clean_txn, clean_txn', Ids(clean_cust))]_vars
    /\ [](Has("rfm") =>
            \A i \in 1..Len(features) :
                /\ features[i].customer_id \in Ids(clean_cust)
                /\ features[i].transaction_count
                     = Cardinality({k \in 1..Len(clean_txn) :
                          /\ clean_txn[k].customer_id = features[i].customer_id
                          /\ clean_txn[k].customer_id \in Ids(clean_cust)}))

\* C4 witness: the filter removed an orphan row and kept another row, and
\* the features were computed.
C4_Witness ==
    /\ Has("rfm")
    /\ Len(clean_txn) >= 1
    /\ \E i \in 1..Len(raw_transactions) :
          /\ TransactionFilter(raw_transactions[i])
          /\ raw_transactions[i].customer_id \notin Ids(clean_cust)

\* The currency inference gives a row: the mapped currency of its customer's
\* country when its currency is "NA" and the customer exists, else its own.
ExpectedCurrency(t, customers) ==
    IF t.currency = Some("NA")
       /\ \E c \in Range(customers) :
             c.customer_id = t.customer_id
             /\ c.country \in {Some("DK"), Some("SE"), Some("NO"), Some("FI")}
    THEN LET c == CHOOSE c \in Range(customers) :
                     c.customer_id = t.customer_id
         IN  CASE c.country = Some("DK") -> Some("DKK")
               [] c.country = Some("SE") -> Some("SEK")
               [] c.country = Some("NO") -> Some("NOK")
               [] c.country = Some("FI") -> Some("EUR")
    ELSE t.currency

\* C5: infer_currency_from_country keeps the number of rows and every field
\* but currency; a row with currency "NA" gets its customer's mapped
\* currency, or keeps "NA" when there is no customer or no mapping; a row
\* with a real currency is unchanged.
C5_InferCurrency ==
    [][pc = "infer" /\ pc' = "orphans" =>
        /\ Len(clean_txn') = Len(clean_txn)
        /\ \A i \in 1..Len(clean_txn) :
              \E j \in 1..Len(clean_txn') :
                 /\ clean_txn'[j]
                      = [clean_txn[i] EXCEPT
                           !.currency = ExpectedCurrency(clean_txn[i], clean_cust)]
                 /\ \A k \in 1..Len(clean_txn') :
                       clean_txn'[k].transaction_id
                         = clean_txn[i].transaction_id => k = j]_vars

\* C5 witness: after the inference one row that was "NA" has a real currency
\* and another row, of a missing customer, is still "NA".
C5_Witness ==
    /\ pc = "orphans"
    /\ Has("infer")
    /\ LET before == clean_transactions(raw_transactions)
       IN  /\ \E i \in 1..Len(before) :
                 /\ before[i].currency = Some("NA")
                 /\ clean_txn[i].currency \in {Some("DKK"), Some("EUR")}
           /\ \E i \in 1..Len(before) :
                 /\ before[i].currency = Some("NA")
                 /\ before[i].customer_id \notin Ids(clean_cust)
                 /\ clean_txn[i].currency = Some("NA")

\* C6: a currency without a conversion rate gives a null amount_in_eur, and
\* the aggregation leaves nulls out of total_spend and
\* avg_transaction_amount: a customer whose amounts are all null has no
\* total_spend of 0.
C6_NullAmountsExcluded ==
    /\ Has("convert") =>
          \A k \in 1..Len(clean_txn) :
              clean_txn[k].currency \notin
                  {Some("EUR"), Some("DKK"), Some("SEK"), Some("NOK")}
                => IsNull(clean_txn[k].amount_in_eur)
    /\ Has("rfm") =>
          \A i \in 1..Len(features) :
              LET eur == NonNull(Group(clean_txn, features[i].customer_id),
                                 "amount_in_eur")
              IN  /\ eur # <<>> => features[i].total_spend = Some(SumSeq(eur))
                  /\ eur = <<>> =>
                        /\ features[i].total_spend # Some(0)
                        /\ IsNull(features[i].avg_transaction_amount)

\* C7: a run that has aborted has written no output file, and a run that
\* has completed has written all three.
C7_NoPartialWrite ==
    /\ pc = "aborted" => written = {}
    /\ pc = "done" => written = OutputFiles

\* C8: with input files that match the schema, cleaning does not raise on a
\* malformed row: a run never aborts in clean_customers or
\* clean_transactions, so one that has aborted had finished cleaning.
C8_CleaningNeverRaises ==
    (pc = "aborted" /\ schema_ok) => Has("normalize")

\* C9: a customer with exactly one transaction has transaction_count 1,
\* customer_tenure_days 0 and null std_transaction_amount,
\* mean_interevent_days and std_interevent_days; has_single_transaction is
\* true exactly for transaction_count 1.
C9_SingleTransaction ==
    /\ Has("rfm") =>
          \A i \in 1..Len(features) :
              Len(Group(clean_txn, features[i].customer_id)) = 1 =>
                  /\ features[i].transaction_count = 1
                  /\ features[i].customer_tenure_days = Some(0)
                  /\ IsNull(features[i].std_transaction_amount)
                  /\ IsNull(features[i].mean_interevent_days)
                  /\ IsNull(features[i].std_interevent_days)
    /\ Has("flags") =>
          \A i \in 1..Len(features) :
              features[i].has_single_transaction
                = Some(features[i].transaction_count = 1)

\* The cleaned customers that have at least one retained transaction.
CustomersWithTransactions == Ids(clean_cust) \cap Ids(clean_txn)

\* C10: the feature table has exactly one row for each cleaned customer with
\* at least one retained transaction and no other row, and the enrichment
\* join keeps the rows as they are and finds a customer for each.
C10_OneRowPerCustomer ==
    /\ [](Has("rfm") =>
            /\ {features[i].customer_id : i \in 1..Len(features)}
                 = CustomersWithTransactions
            /\ Len(features) = Cardinality(CustomersWithTransactions))
    /\ [][pc = "enrich" =>
            /\ Len(features') = Len(features)
            /\ \A i \in 1..Len(features) :
                  /\ features'[i].customer_id = features[i].customer_id
                  /\ features'[i].total_spend = features[i].total_spend
                  /\ ~IsNull(features'[i].country)
                  /\ \E c \in Range(clean_cust) :
                        /\ c.customer_id = features'[i].customer_id
                        /\ c.country = features'[i].country
                        /\ c.signup_date = features'[i].signup_date
                        /\ c.email = features'[i].email]_vars

\* C10 witness: the run is complete, a cleaned customer has no transaction
\* and is absent, and another has a feature row.
C10_Witness ==
    /\ pc = "done"
    /\ Len(features) = 1
    /\ Len(clean_cust) = 2

\* Whether spend >= the quantile of xs at percent/100 by linear interpolation
\* between order statistics: with pos = (n - 1) * percent / 100, lo its
\* integer part and rem/100 its fraction, the quantile is
\* sorted[lo] + (rem/100) * (sorted[hi] - sorted[lo]).
AtLeastLinearQuantile(spend, xs, percent) ==
    LET n == Len(xs)
        sorted == CHOOSE s \in [1..n -> Range(xs)] :
                     /\ \A i \in 1..(n - 1) : s[i] <= s[i + 1]
                     /\ \A v \in Range(xs) :
                          Cardinality({i \in 1..n : s[i] = v})
                            = Cardinality({i \in 1..n : xs[i] = v})
        lo == ((n - 1) * percent) \div 100
        rem == ((n - 1) * percent) % 100
        hi == IF rem = 0 THEN lo ELSE lo + 1
    IN  100 * spend >= 100 * sorted[lo + 1]
                         + rem * (sorted[hi + 1] - sorted[lo + 1])

\* C11: once add_customer_flags has run, is_high_value is true for exactly
\* the customers whose total_spend is at least the HIGH_VALUE_PERCENTILE
\* quantile of total_spend over the whole feature table, the quantile being
\* taken by linear interpolation between order statistics.
C11_HighValueLinearQuantile ==
    Has("flags") =>
        \A i \in 1..Len(features) :
            features[i].is_high_value
              = Some(AtLeastLinearQuantile(Val(features[i].total_spend),
                                          NonNull(features, "total_spend"),
                                          HIGH_VALUE_PERCENTILE))

\* The worked example is the input, and inference is enabled.
ExampleRun ==
    /\ infer_missing_currency
    /\ customers_file = StdCustomers
    /\ Len(transactions_file) = 3
    /\ {<<transactions_file[i].customer_id, transactions_file[i].amount,
          transactions_file[i].currency, transactions_file[i].timestamp>> :
            i \in 1..3} = ExampleRows

\* C12: on the worked example, after inference customer 2's transaction has
\* currency EUR; after conversion each transaction of customer 1 has
\* amount_in_eur 13.40; customer 1's feature row has total_spend 26.80,
\* transaction_count 2 and customer_tenure_days 9; customer 2's has
\* total_spend 50.00, transaction_count 1, std_transaction_amount null and
\* has_single_transaction true.
C12_WorkedExample ==
    ExampleRun =>
        /\ Has("infer") =>
              \A i \in 1..Len(clean_txn) :
                  clean_txn[i].customer_id = Some(2)
                    => clean_txn[i].currency = Some("EUR")
        /\ Has("convert") =>
              /\ Len(clean_txn) = 3
              /\ \A i \in 1..Len(clean_txn) :
                    clean_txn[i].customer_id = Some(1)
                      => clean_txn[i].amount_in_eur = Some(1340)
        /\ Has("rfm") =>
              /\ Ids(features) = {Some(1), Some(2)}
              /\ \A i \in 1..Len(features) :
                    /\ features[i].customer_id = Some(1) =>
                          /\ features[i].total_spend = Some(2680)
                          /\ features[i].transaction_count = 2
                          /\ features[i].customer_tenure_days = Some(9)
                    /\ features[i].customer_id = Some(2) =>
                          /\ features[i].total_spend = Some(5000)
                          /\ features[i].transaction_count = 1
                          /\ features[i].std_transaction_amount = None
        /\ Has("flags") =>
              \A i \in 1..Len(features) :
                  features[i].customer_id = Some(2)
                    => features[i].has_single_transaction = Some(TRUE)

\* C12 witness: the worked example has run to the end.
C12_Witness ==
    /\ ExampleRun
    /\ pc = "done"
    /\ Len(features) = 2

\* The completed stages are distinct and follow the given order.
InOrder(order) ==
    \A i, j \in DOMAIN trail :
        i < j => \E k, l \in DOMAIN order :
                    /\ k < l
                    /\ order[k] = trail[i]
                    /\ order[l] = trail[j]

\* C13 as stated: the stages complete in the order Normalizer, Currency
\* Resolver (inference, then conversion to amount_in_eur), Referential
\* Integrity Filter, RFM Aggregator, Flag Engine, Enricher.
C13_StageOrderAsStated ==
    InOrder(<<"normalize", "infer", "convert", "orphans",
              "rfm", "flags", "enrich">>)

\* C13: the stages complete in the order Normalizer, currency inference,
\* Referential Integrity Filter, conversion to amount_in_eur, RFM
\* Aggregator, Flag Engine, Enricher, each at most once and none skipped
\* except inference when it is disabled; the integrity filter never runs
\* before inference, and aggregation never starts before every retained
\* transaction carries its amount_in_eur column.
C13_StageOrder ==
    /\ InOrder(<<"normalize", "infer", "orphans", "convert",
                 "rfm", "flags", "enrich">>)
    /\ Has("infer") => Has("normalize") /\ infer_missing_currency
    /\ Has("orphans") =>
          /\ Has("normalize")
          /\ infer_missing_currency => Has("infer")
    /\ Has("convert") => Has("orphans")
    /\ pc \in {"write_customers", "write_transactions", "rfm"} =>
          Has("convert")
    /\ Has("rfm") =>
          /\ Has("convert")
          /\ \A i \in 1..Len(clean_txn) :
                "amount_in_eur" \in DOMAIN clean_txn[i]
    /\ Has("flags") => Has("rfm")
    /\ Has("enrich") => Has("flags")
    /\ pc = "done" => Has("enrich")

\* C13 witness: a complete run with inference, in which the integrity
\* filter removed a transaction.
C13_Witness ==
    /\ pc = "done"
    /\ trail = <<"normalize", "infer", "orphans", "convert",
                 "rfm", "flags", "enrich">>
    /\ \E i \in 1..Len(raw_transactions) :
          /\ raw_transactions[i].customer_id = Some(9)
          /\ raw_transactions[i].customer_id \notin Ids(clean_txn)
    /\ clean_txn # <<>>

\* The non-null timestamps of one customer's transactions, ascending.
CustomerTimestamps(transactions, cid) ==
    LET ts == NonNull(Group(transactions, cid), "timestamp")
        n == Len(ts)
    IN  CHOOSE s \in [1..n -> Range(ts)] :
            /\ \A i \in 1..(n - 1) : s[i] <= s[i + 1]
            /\ \A v \in Range(ts) :
                  Cardinality({i \in 1..n : s[i] = v})
                    = Cardinality({i \in 1..n : ts[i] = v})

\* C14: in the feature table of compute_rfm_features, a customer with n
\* transactions has exactly n - 1 interevent deltas, each the whole-day
\* difference between a transaction and its predecessor in the customer's
\* timestamp-ascending order; mean_interevent_days is null exactly when
\* n < 2 and std_interevent_days is null exactly when n < 3.
C14_IntereventDeltas ==
    Has("rfm") =>
        \A i \in 1..Len(features) :
            LET cid == features[i].customer_id
                n == Len(Group(clean_txn, cid))
                deltas == InterEventDeltas(clean_txn, cid)
                ts == CustomerTimestamps(clean_txn, cid)
            IN  /\ Len(deltas) = n - 1
                /\ Len(ts) = n
                /\ \A k \in 1..Len(deltas) :
                      deltas[k] = total_days(ts[k + 1] - ts[k])
                /\ IsNull(features[i].mean_interevent_days) <=> n < 2
                /\ IsNull(features[i].std_interevent_days) <=> n < 3

\* The date of the latest timestamp over all the transactions.
MaxTransactionDate(transactions) ==
    DateOf(SetMax({Val(transactions[i].timestamp) :
                     i \in {j \in 1..Len(transactions) :
                               ~IsNull(transactions[j].timestamp)}}))

\* C15: with no reference date passed, every feature row's
\* days_since_last_transaction is the distance from one date, that of the
\* latest timestamp over all transactions, to the customer's last
\* transaction date, so it is >= 0 for every customer and 0 for at least
\* one, and customer_tenure_days is >= 0 for every customer; with a
\* reference date passed, days_since_last_transaction is the distance from
\* that date for every customer.
C15_ReferenceDate ==
    Has("rfm") =>
        IF IsNull(reference_date_arg)
        THEN /\ \A i \in 1..Len(features) :
                  /\ ~IsNull(features[i].days_since_last_transaction)
                  /\ Val(features[i].days_since_last_transaction) >= 0
                  /\ Val(features[i].days_since_last_transaction)
                       = MaxTransactionDate(clean_txn)
                           - DateOf(Val(features[i].last_transaction_date))
                  /\ ~IsNull(features[i].customer_tenure_days)
                  /\ Val(features[i].customer_tenure_days) >= 0
             /\ \E i \in 1..Len(features) :
                  features[i].days_since_last_transaction = Some(0)
        ELSE \A i \in 1..Len(features) :
                  ~IsNull(features[i].last_transaction_date) =>
                      features[i].days_since_last_transaction
                        = Some(Val(reference_date_arg)
                                 - DateOf(Val(features[i].last_transaction_date)))

=============================================================================
